---- MODULE Spec2Model ----
(***************************************************************************)
(* Model of event_fixer.py: fix_event_numbers (in-place renumbering of the *)
(* get and frib/evt groups of a merged run file) followed by               *)
(* check_timestamps (read-only comparison of the two streams' clocks), as  *)
(* main calls them for one run.                                            *)
(*                                                                         *)
(* A group is a function from keys to records.  A key evt{N}_{suffix} is   *)
(* the pair <<N, suffix>>.  A record keeps the event number it was written *)
(* under (id), so that a rename can be told from a copy or a swap.         *)
(* Timestamps are stored in half units (Unit = 2 stands for 1.0), so that  *)
(* int() truncates and float() does not.                                   *)
(***************************************************************************)
EXTENDS Integers, FiniteSets, Sequences, TLC

VARIABLES
    meta,        \* file["meta"]["meta"]: positions 0..2
    get,         \* file["get"]: key -> record
    fribState,   \* "absent" (no frib group), "noevt" (frib without evt), "present"
    frib,        \* file["frib"]["evt"]: key -> record (empty unless present)
    pc,          \* position in main's loop body
    event_min,   \* local of the running function
    event_max,   \* local of the running function
    event_range, \* local of fix_event_numbers
    event,       \* loop variable of the running loop
    offset,      \* local of check_timestamps (half units)
    err,         \* exception that left the running function, or "none"
    log,         \* what was printed, in order
    reads,       \* header indices check_timestamps has read inside its loop
    getMoves,    \* number of completed data.move calls on file["get"]
    fribMoves,   \* number of completed data.move calls on file["frib"]["evt"]
    metaWrites,  \* metadata positions assigned so far
    report,      \* what check_timestamps printed at its end: kind and event
    start,       \* the container as it was when main reached this run
    run,         \* main's loop variable
    run_max,     \* main's argument RUN_MAX
    disk,        \* the run files of the directory: run -> container, or NoFile
    closed,      \* the file handles the interpreter has released so far
    visited      \* the calls main has completed, in order

\* what only main and the interpreter change
drv == <<run, run_max, disk, closed, visited>>

vars == <<meta, get, fribState, frib, pc, event_min, event_max, event_range,
          event, offset, err, log, reads, getMoves, fribMoves, metaWrites, report,
          start, drv>>

-----------------------------------------------------------------------------
(* Bounds *)

\* largest event number in the metadata and in the get keys of an input
MaxEvt == 2

\* largest event number of an input of the checker-only specification
MaxChk == 3

\* largest run number of the directory (RUN_MIN is 0)
MaxRun == 2

(* Program constants *)

\* half units per timestamp unit
Unit == 2

\* "if this_offset - offset > 1"
Tolerance == 1

-----------------------------------------------------------------------------
(* Keys and records *)

\* f"evt{n}_{suffix}"
Key(n, suffix) == <<n, suffix>>

\* the numbers n for which group g holds evt{n}_{suffix}
Indices(g, suffix) == {k[1] : k \in {x \in DOMAIN g : x[2] = suffix}}

\* a data record (payload is never read)
DataRec(n, kind) == [id |-> n, kind |-> kind, f |-> <<>>]

\* a get header: field [2] is the timestamp
GetHeader(n, ts) == [id |-> n, kind |-> "header", f |-> <<n, 0, ts>>]

\* a frib header: field [1] is the timestamp
FribHeader(n, ts) == [id |-> n, kind |-> "header", f |-> <<n, ts>>]

\* Python's x[i] on a header record (0-based)
Field(rec, i) == rec.f[i + 1]

\* float(x) of a stored value: exact
PyFloat(v) == v

\* int(x) of a stored value: truncation toward zero
PyInt(v) == IF v >= 0 THEN Unit * (v \div Unit) ELSE -(Unit * ((-v) \div Unit))

\* the get group holding data and header for the events in S
GetGroup(S, ts) ==
    [k \in (S \X {"data", "header"}) |->
        IF k[2] = "data" THEN DataRec(k[1], "data") ELSE GetHeader(k[1], ts[k[1]])]

\* the frib/evt group holding 1903 and header for the events in S
FribGroup(S, ts) ==
    [k \in (S \X {"1903", "header"}) |->
        IF k[2] = "1903" THEN DataRec(k[1], "1903") ELSE FribHeader(k[1], ts[k[1]])]

\* group g without the keys in K
Without(g, K) == [k \in (DOMAIN g \ K) |-> g[k]]

EmptyGroup == [k \in {} |-> 0]

\* the elements of a sequence
Range(s) == {s[i] : i \in DOMAIN s}

\* the last element of a non-empty sequence
Last(s) == s[Len(s)]

-----------------------------------------------------------------------------
(* h5py Group.move(source, dest) *)

\* mutant: a move onto an existing key is carried out
MoveOutcomeNoCollisionCheck(g, old, new) ==
    IF old \notin DOMAIN g THEN "KeyError" ELSE "ok"

MoveOutcome(g, old, new) ==
    IF old \notin DOMAIN g THEN "KeyError"
    ELSE IF new \in DOMAIN g THEN "ValueError"
    ELSE "ok"

\* mutant: the record is linked under the new key and stays under the old one
MoveKeepsSource(g, old, new) ==
    [k \in (DOMAIN g \cup {new}) |-> IF k = new THEN g[old] ELSE g[k]]

Move(g, old, new) ==
    [k \in ((DOMAIN g \ {old}) \cup {new}) |-> IF k = new THEN g[old] ELSE g[k]]

-----------------------------------------------------------------------------
(* Initial states *)

\* the meta record [event_min, <not read>, event_max]
MetaRecord(lo, hi) == [i \in 0 .. 2 |-> IF i = 0 THEN lo ELSE IF i = 2 THEN hi ELSE 7]

EvtIdx == 0 .. MaxEvt
FribIdx == 0 .. (MaxEvt + 1)

\* timestamps of the full model: every stream in step, or the get clock drifting
SyncClock == [n \in FribIdx |-> 200]
DriftClock == [n \in FribIdx |-> 200 + 6 * n]
GetTsProfiles == {SyncClock, DriftClock}
FribTsProfile == [n \in FribIdx |-> 0]

Snapshot(m, g, fs, fr) == [meta |-> m, get |-> g, fribState |-> fs, frib |-> fr]

NoReport == [kind |-> "none", at |-> -1]

\* line 166: path.exists() is false
NoFile == [meta |-> <<>>, get |-> <<>>, fribState |-> "nofile", frib |-> <<>>]

\* line 166: path.exists()
Exists(r) == disk[r].fribState # "nofile"

\* main called for the single run 0, whose file is the container at hand
OneRun ==
    /\ run = 0
    /\ run_max = 0
    /\ disk = [r \in {0} |-> Snapshot(meta, get, fribState, frib)]
    /\ closed = {}
    /\ visited = <<>>

InitLocals ==
    /\ event_min = 0
    /\ event_max = 0
    /\ event_range = 0
    /\ event = 0
    /\ offset = 0
    /\ err = "none"
    /\ log = <<>>
    /\ reads = {}
    /\ getMoves = 0
    /\ fribMoves = 0
    /\ metaWrites = {}
    /\ report = NoReport

Init ==
    /\ \E lo \in EvtIdx, hi \in EvtIdx :
          /\ lo <= hi
          /\ meta = MetaRecord(lo, hi)
    /\ \E S \in SUBSET EvtIdx, ts \in GetTsProfiles, h \in EvtIdx \cup {-1} :
          get = Without(GetGroup(S, ts), {Key(h, "header")})
    /\ fribState \in {"absent", "noevt", "present"}
    /\ IF fribState = "present"
       THEN \E S \in SUBSET FribIdx, h \in FribIdx \cup {-1} :
               frib = Without(FribGroup(S, FribTsProfile), {Key(h, "header")})
       ELSE frib = EmptyGroup
    /\ pc = "fix"
    /\ InitLocals
    /\ start = Snapshot(meta, get, fribState, frib)
    /\ OneRun

-----------------------------------------------------------------------------
(* fix_event_numbers *)

\* mutant: the offset test reads as always true
OffsetDetectedAlways(lo) == lo = lo

\* line 57: if event_min != 0
OffsetDetected(lo) == lo # 0

\* mutant: the upper bound of fix_get_event_numbers (exclusive)
InGetRangeExclusive(e, hi) == e < hi

\* line 60: range(event_min, event_max + 1) holds e
InGetRange(e, hi) == e <= hi

\* mutant: the shift loop stops one event early
InFribRangeExclusive(e, r) == e < r

\* line 97: range(0, event_range + 1) holds e
InFribRange(e, r) == e <= r

\* lines 45-57: open, read the metadata, decide on the get repair
FixStart ==
    /\ pc = "fix"
    /\ event_min' = meta[0]
    /\ event_max' = meta[2]
    /\ event_range' = meta[2] - meta[0]
    /\ IF OffsetDetected(meta[0])
       THEN /\ log' = log \o <<"get_offset_detected">>
            /\ event' = meta[0]
            /\ pc' = IF InGetRange(meta[0], meta[2]) THEN "get_data" ELSE "get_meta"
       ELSE /\ log' = log
            /\ event' = event
            /\ pc' = "frib_open"
    /\ UNCHANGED <<meta, get, fribState, frib, offset, err, reads,
                   getMoves, fribMoves, metaWrites, report, start, drv>>

\* mutant: the target index is the event number itself
IdxNoOffset == event

\* enumerate(): idx of the current event
Idx == event - event_min

\* mutant: a failed move is swallowed and the loop goes on with the header
GetMoveDataSwallows ==
    /\ pc = "get_data"
    /\ LET old == Key(event, "data")
           new == Key(Idx, "data")
           res == MoveOutcome(get, old, new)
       IN  IF res = "ok"
           THEN /\ get' = Move(get, old, new)
                /\ getMoves' = getMoves + 1
           ELSE UNCHANGED <<get, getMoves>>
    /\ pc' = "get_header"
    /\ UNCHANGED <<meta, fribState, frib, event_min, event_max, event_range, err,
                   event, offset, log, reads, fribMoves, metaWrites, report, start, drv>>

\* lines 61-63: data.move(f"evt{event}_data", f"evt{idx}_data")
GetMoveData ==
    /\ pc = "get_data"
    /\ LET old == Key(event, "data")
           new == Key(Idx, "data")
           res == MoveOutcome(get, old, new)
       IN  IF res = "ok"
           THEN /\ get' = Move(get, old, new)
                /\ getMoves' = getMoves + 1
                /\ pc' = "get_header"
                /\ err' = err
           ELSE /\ err' = res
                /\ pc' = "fix_raised"
                /\ UNCHANGED <<get, getMoves>>
    /\ UNCHANGED <<meta, fribState, frib, event_min, event_max, event_range,
                   event, offset, log, reads, fribMoves, metaWrites, report, start, drv>>

\* lines 64-66 and the loop's step: data.move(f"evt{event}_header", f"evt{idx}_header")
GetMoveHeader ==
    /\ pc = "get_header"
    /\ LET old == Key(event, "header")
           new == Key(Idx, "header")
           res == MoveOutcome(get, old, new)
       IN  IF res = "ok"
           THEN /\ get' = Move(get, old, new)
                /\ getMoves' = getMoves + 1
                /\ event' = event + 1
                /\ pc' = IF InGetRange(event + 1, event_max) THEN "get_data" ELSE "get_meta"
                /\ err' = err
           ELSE /\ err' = res
                /\ pc' = "fix_raised"
                /\ UNCHANGED <<get, getMoves, event>>
    /\ UNCHANGED <<meta, fribState, frib, event_min, event_max, event_range,
                   offset, log, reads, fribMoves, metaWrites, report, start, drv>>

\* mutant: the range is written to position 1
GetWriteMetaWrongIndex ==
    /\ pc = "get_meta"
    /\ meta' = [meta EXCEPT ![0] = 0, ![1] = event_max - event_min]
    /\ metaWrites' = metaWrites \cup {0, 1}
    /\ log' = log \o <<"get_repaired">>
    /\ pc' = "frib_open"
    /\ UNCHANGED <<get, fribState, frib, event_min, event_max, event_range,
                   event, offset, err, reads, getMoves, fribMoves, report, start, drv>>

\* mutant: the first event number of the metadata is left as found
GetWriteMetaKeepsMin ==
    /\ pc = "get_meta"
    /\ meta' = [meta EXCEPT ![2] = event_max - event_min]
    /\ metaWrites' = metaWrites \cup {2}
    /\ log' = log \o <<"get_repaired">>
    /\ pc' = "frib_open"
    /\ UNCHANGED <<get, fribState, frib, event_min, event_max, event_range,
                   event, offset, err, reads, getMoves, fribMoves, report, start, drv>>

\* lines 67-69: meta_data[0] = 0; meta_data[2] = event_max - event_min
GetWriteMeta ==
    /\ pc = "get_meta"
    /\ meta' = [meta EXCEPT ![0] = 0, ![2] = event_max - event_min]
    /\ metaWrites' = metaWrites \cup {0, 2}
    /\ log' = log \o <<"get_repaired">>
    /\ pc' = "frib_open"
    /\ UNCHANGED <<get, fribState, frib, event_min, event_max, event_range,
                   event, offset, err, reads, getMoves, fribMoves, report, start, drv>>

\* mutant: the emptiness test of line 81 is left out
NoFribDataGroupOnly == fribState # "present"

\* lines 74-81: file["frib"]["evt"] raises, or len(data.keys()) == 0
NoFribData == fribState # "present" \/ Cardinality(DOMAIN frib) = 0

\* lines 71-83: file["frib"]["evt"], and the emptiness test
FribOpen ==
    /\ pc = "frib_open"
    /\ IF NoFribData
       THEN /\ log' = log \o <<"no_fribdaq_data">>
            /\ pc' = "check"
       ELSE /\ log' = log
            /\ pc' = "frib_detect"
    /\ UNCHANGED <<meta, get, fribState, frib, event_min, event_max, event_range,
                   event, offset, err, reads, getMoves, fribMoves, metaWrites, report, start, drv>>

\* mutant: the end test looks one event too far
LooksOkOffByOne ==
    Key(0, "1903") \in DOMAIN frib /\ Key(event_range + 1, "1903") \in DOMAIN frib

\* lines 86-93: both data["evt0_1903"] and data[f"evt{event_range}_1903"] succeed
LooksOk == Key(0, "1903") \in DOMAIN frib /\ Key(event_range, "1903") \in DOMAIN frib

\* lines 85-97: the detection, and the entry of the shift loop
FribDetect ==
    /\ pc = "frib_detect"
    /\ IF LooksOk
       THEN /\ log' = log \o <<"frib_looks_ok">>
            /\ pc' = "check"
            /\ event' = event
       ELSE /\ log' = log \o <<"frib_offset_detected">>
            /\ event' = 0
            /\ pc' = IF InFribRange(0, event_range) THEN "frib_1903" ELSE "frib_fixed"
    /\ UNCHANGED <<meta, get, fribState, frib, event_min, event_max, event_range,
                   offset, err, reads, getMoves, fribMoves, metaWrites, report, start, drv>>

\* lines 101-103: data.move(f"evt{event+1}_1903", f"evt{event}_1903")
FribMove1903 ==
    /\ pc = "frib_1903"
    /\ LET old == Key(event + 1, "1903")
           new == Key(event, "1903")
           res == MoveOutcome(frib, old, new)
       IN  IF res = "ok"
           THEN /\ frib' = Move(frib, old, new)
                /\ fribMoves' = fribMoves + 1
                /\ pc' = "frib_header"
                /\ err' = err
           ELSE /\ err' = res
                /\ pc' = "fix_raised"
                /\ UNCHANGED <<frib, fribMoves>>
    /\ UNCHANGED <<meta, get, fribState, event_min, event_max, event_range,
                   event, offset, log, reads, getMoves, metaWrites, report, start, drv>>

\* lines 104-106 and the loop's step: data.move(f"evt{event+1}_header", f"evt{event}_header")
FribMoveHeader ==
    /\ pc = "frib_header"
    /\ LET old == Key(event + 1, "header")
           new == Key(event, "header")
           res == MoveOutcome(frib, old, new)
       IN  IF res = "ok"
           THEN /\ frib' = Move(frib, old, new)
                /\ fribMoves' = fribMoves + 1
                /\ event' = event + 1
                /\ pc' = IF InFribRange(event + 1, event_range) THEN "frib_1903" ELSE "frib_fixed"
                /\ err' = err
           ELSE /\ err' = res
                /\ pc' = "fix_raised"
                /\ UNCHANGED <<frib, fribMoves, event>>
    /\ UNCHANGED <<meta, get, fribState, event_min, event_max, event_range,
                   offset, log, reads, getMoves, metaWrites, report, start, drv>>

\* line 108: print(f"Run {path} fixed."), and the return to main
FribFixed ==
    /\ pc = "frib_fixed"
    /\ log' = log \o <<"fixed">>
    /\ pc' = "check"
    /\ UNCHANGED <<meta, get, fribState, frib, event_min, event_max, event_range,
                   event, offset, err, reads, getMoves, fribMoves, metaWrites, report, start, drv>>

-----------------------------------------------------------------------------
(* check_timestamps *)

\* line 131: file["frib"]["evt"] raises unless both groups exist
FribEvtMissing == fribState # "present"

\* lines 132-134: float(get_group[...][2]) - float(frib_group[...][1])
ReferenceOffset(g, fr, n) ==
    PyFloat(Field(g[Key(n, "header")], 2)) - PyFloat(Field(fr[Key(n, "header")], 1))

\* line 138: int(get_header[2]) - int(frib_header[1])
ThisOffset(g, fr, n) ==
    PyInt(Field(g[Key(n, "header")], 2)) - PyInt(Field(fr[Key(n, "header")], 1))

\* line 139: this_offset - offset > 1
Mismatch(this_offset, ref) == this_offset - ref > Tolerance * Unit

\* mutant: the scan includes event_max
InScanInclusive(e, hi) == e <= hi

\* line 135: range(event_min, event_max) has a next value
InScan(e, hi) == e < hi

\* lines 124-134: open read-only, read the metadata and the reference offset
CheckStart ==
    /\ pc = "check"
    /\ event_min' = meta[0]
    /\ event_max' = meta[2]
    /\ IF \/ FribEvtMissing
          \/ Key(meta[0], "header") \notin DOMAIN get
          \/ Key(meta[0], "header") \notin DOMAIN frib
       THEN /\ err' = "KeyError"
            /\ pc' = "check_raised"
            /\ UNCHANGED <<offset, event>>
       ELSE /\ offset' = ReferenceOffset(get, frib, meta[0])
            /\ event' = meta[0]
            /\ pc' = "check_loop"
            /\ err' = err
    /\ UNCHANGED <<meta, get, fribState, frib, event_range, log, reads,
                   getMoves, fribMoves, metaWrites, report, start, drv>>

\* lines 135-143: one pass of the scan
CheckStep ==
    /\ pc = "check_loop"
    /\ InScan(event, event_max)
    /\ IF Key(event, "header") \notin DOMAIN get
       THEN /\ err' = "KeyError"
            /\ pc' = "check_raised"
            /\ UNCHANGED <<reads, report, event>>
       ELSE IF Key(event, "header") \notin DOMAIN frib
       THEN /\ err' = "KeyError"
            /\ pc' = "check_raised"
            /\ reads' = reads \cup {<<"get", event>>}
            /\ UNCHANGED <<report, event>>
       ELSE /\ reads' = reads \cup {<<"get", event>>, <<"frib", event>>}
            /\ err' = err
            /\ IF Mismatch(ThisOffset(get, frib, event), offset)
               THEN /\ report' = [kind |-> "mismatch", at |-> event]
                    /\ pc' = "done"
                    /\ event' = event
               ELSE /\ report' = report
                    /\ event' = event + 1
                    /\ pc' = pc
    /\ UNCHANGED <<meta, get, fribState, frib, event_min, event_max, event_range,
                   offset, log, getMoves, fribMoves, metaWrites, start, drv>>

\* line 144: print("Finished, timestamps match as expected")
CheckFinish ==
    /\ pc = "check_loop"
    /\ ~InScan(event, event_max)
    /\ report' = [kind |-> "match", at |-> -1]
    /\ pc' = "done"
    /\ UNCHANGED <<meta, get, fribState, frib, event_min, event_max, event_range,
                   event, offset, err, log, reads, getMoves, fribMoves, metaWrites,
                   start, drv>>

-----------------------------------------------------------------------------
(* main's loop body for one run: fix_event_numbers, then check_timestamps *)

Next ==
    \/ FixStart
    \/ GetMoveData
    \/ GetMoveHeader
    \/ GetWriteMeta
    \/ FribOpen
    \/ FribDetect
    \/ FribMove1903
    \/ FribMoveHeader
    \/ FribFixed
    \/ CheckStart
    \/ CheckStep
    \/ CheckFinish

Spec == Init /\ [][Next]_vars

-----------------------------------------------------------------------------
(* main: the loop over the runs of a directory *)

Runs == 0 .. MaxRun

\* a run file with both defects: get events 1..2, frib events 1..2, clocks in step
FileBothDefects ==
    Snapshot(MetaRecord(1, 2), GetGroup({1, 2}, SyncClock), "present",
             FribGroup({1, 2}, FribTsProfile))

\* a correctly numbered run file whose get clock drifts
FileDrifting ==
    Snapshot(MetaRecord(0, 2), GetGroup({0, 1, 2}, DriftClock), "present",
             FribGroup({0, 1, 2}, FribTsProfile))

\* a correctly numbered run file whose clocks are in step
FileInStep ==
    Snapshot(MetaRecord(0, 1), GetGroup({0, 1}, SyncClock), "present",
             FribGroup({0, 1}, FribTsProfile))

\* a run file without FRIBDAQ data
FileNoFrib ==
    Snapshot(MetaRecord(0, 1), GetGroup({0, 1}, SyncClock), "absent", EmptyGroup)

\* a run file whose get group lacks an event of the metadata range
FileGap ==
    Snapshot(MetaRecord(1, 2), GetGroup({1}, SyncClock), "present",
             FribGroup({0, 1}, FribTsProfile))

RunFiles == {FileBothDefects, FileDrifting, FileInStep, FileNoFrib, FileGap, NoFile}

InitMain ==
    /\ run = 0
    /\ run_max \in Runs
    /\ disk \in [Runs -> RunFiles]
    /\ closed = {}
    /\ visited = <<>>
    /\ pc = "main"
    /\ meta = NoFile.meta
    /\ get = NoFile.get
    /\ fribState = NoFile.fribState
    /\ frib = NoFile.frib
    /\ start = NoFile
    /\ InitLocals

\* the locals and the counters of a call that begins
FreshCall ==
    /\ event_min' = 0
    /\ event_max' = 0
    /\ event_range' = 0
    /\ event' = 0
    /\ offset' = 0
    /\ err' = "none"
    /\ log' = <<>>
    /\ reads' = {}
    /\ getMoves' = 0
    /\ fribMoves' = 0
    /\ metaWrites' = {}
    /\ report' = NoReport

\* line 164: range(run_min, run_max + 1) holds r
InRunRange(r, hi) == r <= hi

\* lines 164-167: the run file does not exist: continue
MainSkip ==
    /\ pc = "main"
    /\ InRunRange(run, run_max)
    /\ ~Exists(run)
    /\ run' = run + 1
    /\ UNCHANGED <<meta, get, fribState, frib, pc, event_min, event_max, event_range,
                   event, offset, err, log, reads, getMoves, fribMoves, metaWrites,
                   report, start, run_max, disk, closed, visited>>

\* lines 164-168: the run file exists: fix_event_numbers(path) is called
MainCall ==
    /\ pc = "main"
    /\ InRunRange(run, run_max)
    /\ Exists(run)
    /\ meta' = disk[run].meta
    /\ get' = disk[run].get
    /\ fribState' = disk[run].fribState
    /\ frib' = disk[run].frib
    /\ start' = disk[run]
    /\ FreshCall
    /\ pc' = "fix"
    /\ UNCHANGED drv

\* what main has behind it once a run is through: the run, the report, the file
Visit ==
    [run |-> run, report |-> report.kind, getMoves |-> getMoves,
     fribMoves |-> fribMoves, metaWrites |-> metaWrites,
     after |-> Snapshot(meta, get, fribState, frib)]

\* a driver that gives up the loop at the first reported mismatch
MainNextRunStopsOnMismatch ==
    /\ pc = "done"
    /\ visited' = Append(visited, Visit)
    /\ disk' = [disk EXCEPT ![run] = Snapshot(meta, get, fribState, frib)]
    /\ run' = run + 1
    /\ pc' = IF report.kind = "mismatch" THEN "exit" ELSE "main"
    /\ UNCHANGED <<meta, get, fribState, frib, event_min, event_max, event_range,
                   event, offset, err, log, reads, getMoves, fribMoves, metaWrites,
                   report, start, run_max, closed>>

\* line 169 returns (after either print of check_timestamps): the next iteration
MainNextRun ==
    /\ pc = "done"
    /\ visited' = Append(visited, Visit)
    /\ disk' = [disk EXCEPT ![run] = Snapshot(meta, get, fribState, frib)]
    /\ run' = run + 1
    /\ pc' = "main"
    /\ UNCHANGED <<meta, get, fribState, frib, event_min, event_max, event_range,
                   event, offset, err, log, reads, getMoves, fribMoves, metaWrites,
                   report, start, run_max, closed>>

\* line 164: the range is exhausted and main returns
MainExit ==
    /\ pc = "main"
    /\ ~InRunRange(run, run_max)
    /\ pc' = "exit"
    /\ UNCHANGED <<meta, get, fribState, frib, event_min, event_max, event_range,
                   event, offset, err, log, reads, getMoves, fribMoves, metaWrites,
                   report, start, drv>>

(* File handles.  Line 46 opens the run file "r+" and line 125 opens it    *)
(* "r"; neither function closes its handle, so a handle is released when   *)
(* the interpreter finalises the File object, at some moment after the     *)
(* function that opened it is over.  A handle is <<run, mode>>.            *)

\* the runs main has been through
VisitedRuns == {visited[i].run : i \in DOMAIN visited}

\* the handles opened so far
Opened ==
    {<<r, m>> : r \in VisitedRuns, m \in {"r+", "r"}}
    \cup (IF pc \in {"main", "exit", "fix"} THEN {} ELSE {<<run, "r+">>})
    \cup (IF pc \in {"check_loop", "check_raised", "done"} THEN {<<run, "r">>} ELSE {})

\* the handles a running (or raising) function still refers to
Referenced ==
    (IF pc \in {"get_data", "get_header", "get_meta", "frib_open", "frib_detect",
                "frib_1903", "frib_header", "frib_fixed", "fix_raised"}
     THEN {<<run, "r+">>} ELSE {})
    \cup (IF pc \in {"check_loop", "check_raised"} THEN {<<run, "r">>} ELSE {})

\* the handles that are open
OpenHandles == Opened \ closed

\* the interpreter finalises a File object no function refers to
Finalise ==
    /\ \E h \in (OpenHandles \ Referenced) : closed' = closed \cup {h}
    /\ UNCHANGED <<meta, get, fribState, frib, pc, event_min, event_max, event_range,
                   event, offset, err, log, reads, getMoves, fribMoves, metaWrites,
                   report, start, run, run_max, disk, visited>>

NextMain ==
    \/ MainSkip
    \/ MainCall
    \/ MainNextRun
    \/ MainExit
    \/ Finalise
    \/ FixStart
    \/ GetMoveData
    \/ GetMoveHeader
    \/ GetWriteMeta
    \/ FribOpen
    \/ FribDetect
    \/ FribMove1903
    \/ FribMoveHeader
    \/ FribFixed
    \/ CheckStart
    \/ CheckStep
    \/ CheckFinish

SpecMain == InitMain /\ [][NextMain]_vars

-----------------------------------------------------------------------------
(* fix_event_numbers called a second time on the file it returned from *)

\* line 168 once more, on the same path: the first call is on record in visited
Recall ==
    /\ pc = "check"
    /\ visited = <<>>
    /\ visited' = <<Visit>>
    /\ FreshCall
    /\ pc' = "fix"
    /\ UNCHANGED <<meta, get, fribState, frib, start, run, run_max, disk, closed>>

NextTwice ==
    \/ FixStart
    \/ GetMoveData
    \/ GetMoveHeader
    \/ GetWriteMeta
    \/ FribOpen
    \/ FribDetect
    \/ FribMove1903
    \/ FribMoveHeader
    \/ FribFixed
    \/ Recall

SpecTwice == Init /\ [][NextTwice]_vars

-----------------------------------------------------------------------------
(* check_timestamps alone, on containers with arbitrary clocks *)

ChkIdx == 0 .. MaxChk
GetTsVals == {0, 3, 6}
FribTsVals == {0, 1}

\* no header taken out (the key evt-1_header is in no group)
NoGap == 0 - 1

\* both streams complete, under every assignment of clock values
ChkComplete ==
    {[g |-> NoGap, f |-> NoGap, fs |-> "present", gts |-> a, fts |-> b] :
        a \in [ChkIdx -> GetTsVals], b \in [ChkIdx -> FribTsVals]}

\* one header gone, or no frib data, under clocks in step or drifting
ChkPartial ==
    {[g |-> sh[1], f |-> sh[2], fs |-> sh[3], gts |-> a, fts |-> [n \in ChkIdx |-> 0]] :
        sh \in ({<<n, NoGap, "present">> : n \in ChkIdx}
                \cup {<<NoGap, n, "present">> : n \in ChkIdx}
                \cup {<<NoGap, NoGap, "absent">>, <<NoGap, NoGap, "noevt">>}),
        a \in {[n \in ChkIdx |-> 0], [n \in ChkIdx |-> 3 * n]}}

InitCheck ==
    /\ \E lo \in ChkIdx, hi \in ChkIdx :
          /\ lo <= hi
          /\ meta = MetaRecord(lo, hi)
    /\ \E in \in ChkComplete \cup ChkPartial :
          /\ get = Without(GetGroup(ChkIdx, in.gts), {Key(in.g, "header")})
          /\ fribState = in.fs
          /\ frib = IF in.fs = "present"
                    THEN Without(FribGroup(ChkIdx, in.fts), {Key(in.f, "header")})
                    ELSE EmptyGroup
    /\ pc = "check"
    /\ InitLocals
    /\ start = Snapshot(meta, get, fribState, frib)
    /\ OneRun

NextCheck ==
    \/ CheckStart
    \/ CheckStep
    \/ CheckFinish

SpecCheck == InitCheck /\ [][NextCheck]_vars

-----------------------------------------------------------------------------
(* Vocabulary of the properties *)

\* event_min, event_max and event_max - event_min of the container as found
Lo == start.meta[0]
Hi == start.meta[2]
R == start.meta[2] - start.meta[0]

\* the get group as found had the offset defect and nothing else
OffsetGet ==
    /\ Lo # 0
    /\ Hi >= Lo
    /\ DOMAIN start.get = (Lo .. Hi) \X {"data", "header"}

\* the frib/evt group as found had the shift defect and nothing else
ShiftedFrib ==
    /\ start.fribState = "present"
    /\ DOMAIN start.frib = (1 .. (R + 1)) \X {"1903", "header"}

\* the frib group, its evt subgroup or every entry of it was missing
MissingFrib == start.fribState # "present" \/ DOMAIN start.frib = {}

\* fix_event_numbers is past its get repair
PastGetRepair == pc \notin {"fix", "get_data", "get_header", "get_meta"}

\* fix_event_numbers has returned to main
FixReturned == pc \in {"check", "check_loop", "check_raised", "done"}

\* fix_event_numbers is inside its shift repair
InShift == pc \in {"frib_1903", "frib_header", "frib_fixed"}

\* group g0 with the record of every key evt{n+d}_x under evt{n}_x, for n in 0..r
Renumbered(g0, d, r, suffixes) ==
    [k \in ((0 .. r) \X suffixes) |-> g0[Key(k[1] + d, k[2])]]

\* what the get repair alone leaves of group g0: the records of lo..lo+r under 0..r
GetRepairResult(g0, lo, r) ==
    IF lo = 0 THEN g0
    ELSE [k \in ((DOMAIN g0 \ ((lo .. (lo + r)) \X {"data", "header"}))
                   \cup ((0 .. r) \X {"data", "header"})) |->
             IF k[1] \in 0 .. r THEN g0[Key(k[1] + lo, k[2])] ELSE g0[k]]

\* what the get repair alone leaves of the metadata record m0
MetaRepairResult(m0, lo, r) ==
    IF lo = 0 THEN m0 ELSE [i \in 0 .. 2 |-> IF i = 0 THEN 0 ELSE IF i = 2 THEN r ELSE m0[i]]

\* every record of group g keeps its kind and is the record of one original event
Paired(g, a, b) ==
    \A n \in Indices(g, a) : g[Key(n, a)].kind = a /\ g[Key(n, b)].id = g[Key(n, a)].id

-----------------------------------------------------------------------------
(* C1: offset correction.  When the metadata says event_min # 0 and        *)
(* event_max >= event_min and the get group holds data and header for      *)
(* exactly event_min..event_max, then once the get repair is over the get  *)
(* group holds exactly evt{i}_data and evt{i}_header for i in              *)
(* 0..event_max-event_min, the record at i is the one that was at          *)
(* event_min+i, and meta[0] = 0 and meta[2] = event_max - event_min.       *)
C1_OffsetCorrection ==
    (OffsetGet /\ PastGetRepair) =>
        /\ pc # "fix_raised" \/ "get_repaired" \in Range(log)
        /\ DOMAIN get = (0 .. R) \X {"data", "header"}
        /\ get = Renumbered(start.get, Lo, R, {"data", "header"})
        /\ Paired(get, "data", "header")
        /\ meta[0] = 0
        /\ meta[2] = R
        /\ meta[1] = start.meta[1]

C1_Witness ==
    /\ OffsetGet
    /\ R >= 1
    /\ pc = "check"
    /\ getMoves = 2 * (R + 1)
    /\ get[Key(R, "header")].id = Hi

(* C2: shift-by-one correction.  For every R >= 0, a frib/evt group that   *)
(* held exactly evt{N}_1903 and evt{N}_header for N in 1..R+1, with        *)
(* event_max - event_min = R, holds after fix_event_numbers returned       *)
(* exactly those keys for N in 0..R, each record moved from N+1 to N, and  *)
(* nothing under evt{R+1}.                                                 *)
C2_ShiftByOne ==
    (ShiftedFrib /\ FixReturned) =>
        /\ DOMAIN frib = (0 .. R) \X {"1903", "header"}
        /\ frib = Renumbered(start.frib, 1, R, {"1903", "header"})
        /\ Paired(frib, "1903", "header")
        /\ Key(R + 1, "1903") \notin DOMAIN frib
        /\ Key(R + 1, "header") \notin DOMAIN frib

C2_Witness ==
    /\ ShiftedFrib
    /\ R >= 1
    /\ pc = "check"
    /\ fribMoves = 2 * (R + 1)
    /\ frib[Key(0, "1903")].id = 1

(* C3: rename order safety.  In the get offset repair of a get group       *)
(* holding exactly event_min..event_max (event_min > 0), and in the shift  *)
(* repair of a frib group holding exactly 1..R+1, the target key of the    *)
(* next rename is absent from the group in every intermediate state,       *)
(* event_range = 0 included.                                               *)
C3_RenameOrderSafety ==
    /\ (OffsetGet /\ pc = "get_data") => Key(Idx, "data") \notin DOMAIN get
    /\ (OffsetGet /\ pc = "get_header") => Key(Idx, "header") \notin DOMAIN get
    /\ (ShiftedFrib /\ pc = "frib_1903") => Key(event, "1903") \notin DOMAIN frib
    /\ (ShiftedFrib /\ pc = "frib_header") => Key(event, "header") \notin DOMAIN frib
    /\ (OffsetGet /\ PastGetRepair /\ ShiftedFrib) => err # "ValueError"

C3_Witness ==
    /\ OffsetGet
    /\ ShiftedFrib
    /\ R = 0
    /\ pc = "frib_header"
    /\ getMoves = 2
    /\ fribMoves = 1

(* C4: no-op on correct get input.  When the metadata says event_min = 0,  *)
(* fix_event_numbers never enters the get repair: no rename in the get     *)
(* group, no metadata position written, and the get keys, their records    *)
(* and the metadata record stay as found.                                  *)
C4_NoOpOnCorrectGet ==
    (Lo = 0) =>
        /\ pc \notin {"get_data", "get_header", "get_meta"}
        /\ getMoves = 0
        /\ metaWrites = {}
        /\ get = start.get
        /\ meta = start.meta

C4_Witness ==
    /\ Lo = 0
    /\ Hi >= 1
    /\ Indices(start.get, "data") = 1 .. Hi
    /\ pc = "check"

(* C5: shift detection skip.  When frib/evt as found holds evt0_1903 and   *)
(* evt{event_range}_1903, with event_range taken from the metadata as      *)
(* found, fix_event_numbers never enters the shift repair: no rename in    *)
(* frib/evt, and its keys and their records stay as found, whatever other  *)
(* keys it holds.                                                          *)
C5_ShiftDetectionSkip ==
    (/\ start.fribState = "present"
     /\ Key(0, "1903") \in DOMAIN start.frib
     /\ Key(R, "1903") \in DOMAIN start.frib) =>
        /\ ~InShift
        /\ fribMoves = 0
        /\ frib = start.frib
        /\ fribState = start.fribState
        /\ "frib_offset_detected" \notin Range(log)

C5_Witness ==
    /\ start.fribState = "present"
    /\ R >= 2
    /\ Indices(start.frib, "1903") = {0, R, R + 1}
    /\ pc = "check"
    /\ Last(log) = "frib_looks_ok"

(* C6 as stated: with the frib group absent, its evt subgroup absent or   *)
(* frib/evt empty, fix_event_numbers returns normally (no error) without   *)
(* any frib rename, and get and metadata end as the get repair alone       *)
(* leaves them.                                                            *)
C6_AsStated ==
    MissingFrib =>
        /\ pc # "fix_raised"
        /\ ~InShift
        /\ fribMoves = 0
        /\ FixReturned =>
              /\ get = GetRepairResult(start.get, Lo, R)
              /\ meta = MetaRepairResult(start.meta, Lo, R)

(* C6, amended: with the frib group absent, its evt subgroup absent or     *)
(* frib/evt empty, fix_event_numbers performs no frib rename and its frib  *)
(* stage raises no error: the only error that can leave the call is one    *)
(* raised by a rename of the get repair (before any metadata write); when  *)
(* the get repair raises none, the call reports "no FRIBDAQ data", returns *)
(* normally, and get and metadata end as the get repair alone leaves them  *)
(* (repaired when event_min # 0, unchanged when event_min = 0).            *)
C6_MissingFrib ==
    MissingFrib =>
        /\ ~InShift
        /\ pc # "frib_detect"
        /\ fribMoves = 0
        /\ frib = start.frib
        /\ fribState = start.fribState
        /\ pc = "fix_raised" =>
              /\ Lo # 0
              /\ metaWrites = {}
              /\ meta = start.meta
              /\ "no_fribdaq_data" \notin Range(log)
        /\ pc = "frib_open" => err = "none"
        /\ FixReturned =>
              /\ Last(log) = "no_fribdaq_data"
              /\ get = GetRepairResult(start.get, Lo, R)
              /\ meta = MetaRepairResult(start.meta, Lo, R)
              /\ Lo = 0 => (get = start.get /\ meta = start.meta)

C6_Witness ==
    /\ start.fribState = "present"
    /\ DOMAIN start.frib = {}
    /\ OffsetGet
    /\ R >= 1
    /\ pc = "check"
    /\ getMoves = 2 * (R + 1)
    /\ Last(log) = "no_fribdaq_data"

(* C7: post-repair indexing.  For a container with both defects (get keys  *)
(* exactly event_min..event_max with event_min > 0, frib/evt keys exactly  *)
(* 1..R+1 with R = event_max - event_min), fix_event_numbers returns, and  *)
(* then the get indices and the frib indices are both exactly 0..R, R is   *)
(* the rewritten meta[2], and the event_range used by the frib detection   *)
(* and shift is the one computed from the metadata as found.               *)
C7_PostRepairIndexing ==
    (OffsetGet /\ ShiftedFrib) =>
        /\ pc # "fix_raised"
        /\ (pc = "frib_detect" \/ InShift) => event_range = Hi - Lo
        /\ FixReturned =>
              /\ Indices(get, "data") = 0 .. R
              /\ Indices(get, "header") = 0 .. R
              /\ Indices(frib, "1903") = 0 .. R
              /\ Indices(frib, "header") = 0 .. R
              /\ DOMAIN get = (0 .. R) \X {"data", "header"}
              /\ DOMAIN frib = (0 .. R) \X {"1903", "header"}
              /\ meta[0] = 0
              /\ meta[2] = R
              /\ event_range = meta[2]

C7_Witness ==
    /\ OffsetGet
    /\ ShiftedFrib
    /\ R >= 1
    /\ pc = "check"
    /\ getMoves = 2 * (R + 1)
    /\ fribMoves = 2 * (R + 1)
    /\ meta[2] # start.meta[2]

-----------------------------------------------------------------------------
(* Vocabulary of the checker's properties *)

\* the indices the scan covers: event_min .. event_max - 1 of the metadata
ScanIdx == meta[0] .. (meta[2] - 1)

\* both streams hold a header for event n
HasHeaders(n) == Key(n, "header") \in DOMAIN get /\ Key(n, "header") \in DOMAIN frib

\* the offset at n is more than the tolerance above the reference offset
Exceeds(n) ==
    ThisOffset(get, frib, n) - ReferenceOffset(get, frib, meta[0]) > Tolerance * Unit

\* the indices whose headers the scan has read
ReadIdx == {r[2] : r \in reads}

\* the same, on the stored values without int()
RawExceeds(n) ==
    ReferenceOffset(get, frib, n) - ReferenceOffset(get, frib, meta[0]) > Tolerance * Unit

\* every stored timestamp is a whole number of clock units
WholeClocks ==
    /\ \A k \in DOMAIN get : k[2] = "header" => Field(get[k], 2) % Unit = 0
    /\ \A k \in DOMAIN frib : k[2] = "header" => Field(frib[k], 1) % Unit = 0

Abs(x) == IF x >= 0 THEN x ELSE -x

(* C8: first-mismatch reporting.  check_timestamps scans event_min,        *)
(* event_min+1, ..., event_max-1 in ascending order and never reads index  *)
(* event_max in the scan; a mismatch is reported at the smallest scanned   *)
(* index whose offset (int(get_header[N][2]) - int(frib_header[N][1]))     *)
(* is more than 1 above the reference offset taken at event_min, no header *)
(* of a later index has been read, and when the call ends with a report,   *)
(* the report is success exactly when no scanned index is more than 1      *)
(* above the reference.  On whole-number clock values that offset is      *)
(* get_header[N][2] - frib_header[N][1] itself.                            *)
C8_FirstMismatch ==
    /\ ReadIdx \subseteq ScanIdx
    /\ pc = "check_loop" =>
          /\ ReadIdx = meta[0] .. (event - 1)
          /\ \A n \in ReadIdx : ~Exceeds(n)
    /\ report.kind = "mismatch" =>
          /\ pc = "done"
          /\ report.at \in ScanIdx
          /\ Exceeds(report.at)
          /\ \A n \in meta[0] .. (report.at - 1) : ~Exceeds(n)
          /\ ReadIdx = meta[0] .. report.at
    /\ report.kind = "match" =>
          /\ pc = "done"
          /\ ReadIdx = ScanIdx
          /\ \A n \in ScanIdx : HasHeaders(n) /\ ~Exceeds(n)
    /\ pc = "done" => report.kind \in {"match", "mismatch"}
    /\ (WholeClocks /\ pc \in {"check_loop", "done"}) =>
          \A n \in ScanIdx : HasHeaders(n) => (Exceeds(n) <=> RawExceeds(n))

C8_Witness ==
    /\ pc = "done"
    /\ report.kind = "mismatch"
    /\ report.at > meta[0]
    /\ report.at + 1 \in ScanIdx
    /\ HasHeaders(report.at + 1)
    /\ Exceeds(report.at + 1)
    /\ <<"get", report.at + 1>> \notin reads
    /\ WholeClocks

(* C9 as stated: whenever check_timestamps reports success, every index N  *)
(* of the metadata range present in both streams has an offset             *)
(* get_header[N][2] - frib_header[N][1] within 1 of the reference offset,  *)
(* in absolute value.                                                      *)
C9_AsStated ==
    report.kind = "match" =>
        \A n \in meta[0] .. meta[2] :
            HasHeaders(n) =>
                Abs(ReferenceOffset(get, frib, n) - ReferenceOffset(get, frib, meta[0]))
                    <= Tolerance * Unit

(* C10 as stated: on every container on which fix_event_numbers returned   *)
(* normally, the frib group absent or empty included, check_timestamps     *)
(* ends with a report (success or mismatch) and never in an error.         *)
C10_AsStated ==
    FixReturned => pc # "check_raised"

-----------------------------------------------------------------------------
(* Vocabulary of the abort and conservation properties *)

\* the source keys of the first n renames of a repair that starts at event first
MovedSrc(first, n, a, b) ==
    {Key(first + j, a) : j \in 0 .. (((n + 1) \div 2) - 1)}
    \cup {Key(first + j, b) : j \in 0 .. ((n \div 2) - 1)}

\* group g0 with the records of the keys in srcs d events lower, the rest in place
PartialMoves(g0, srcs, d) ==
    [k \in ((DOMAIN g0 \ srcs) \cup {Key(x[1] - d, x[2]) : x \in srcs}) |->
        IF Key(k[1] + d, k[2]) \in srcs THEN g0[Key(k[1] + d, k[2])] ELSE g0[k]]

\* the source key of the rename about to run is missing
MissingSourceNow ==
    \/ pc = "get_data" /\ Key(event, "data") \notin DOMAIN get
    \/ pc = "get_header" /\ Key(event, "header") \notin DOMAIN get
    \/ pc = "frib_1903" /\ Key(event + 1, "1903") \notin DOMAIN frib
    \/ pc = "frib_header" /\ Key(event + 1, "header") \notin DOMAIN frib

\* the call ended inside the get repair
GetRepairFailed == pc = "fix_raised" /\ Lo # 0 /\ "get_repaired" \notin Range(log)

\* what an aborted call leaves behind
AbortState ==
    (pc = "fix_raised" /\ err = "KeyError") =>
        /\ get = PartialMoves(start.get, MovedSrc(Lo, getMoves, "data", "header"), Lo)
        /\ frib = PartialMoves(start.frib, MovedSrc(1, fribMoves, "1903", "header"), 1)
        /\ GetRepairFailed =>
              /\ meta = start.meta
              /\ metaWrites = {}
              /\ fribMoves = 0
              /\ frib = start.frib
              /\ "frib_offset_detected" \notin Range(log)
              /\ "no_fribdaq_data" \notin Range(log)
        /\ ~GetRepairFailed => fribMoves < 2 * (R + 1)

\* a rename whose source key is missing raises and changes nothing; nothing follows a raise
AbortStep ==
    /\ MissingSourceNow =>
          /\ pc' = "fix_raised"
          /\ err' = "KeyError"
          /\ UNCHANGED <<meta, get, fribState, frib, getMoves, fribMoves, metaWrites, log>>
    /\ pc # "fix_raised"

(* C11: abort without rollback.  When a rename of fix_event_numbers hits a *)
(* missing source key the error leaves fix_event_numbers, no further       *)
(* rename (no further step at all) follows, the renames completed before   *)
(* it stay in place, and when the failure is in the get repair meta[0] and *)
(* meta[2] keep their values and the frib repair is never started.         *)
C11_AbortWithoutRollback == [][AbortStep]_vars /\ []AbortState

C11_Witness ==
    /\ GetRepairFailed
    /\ err = "KeyError"
    /\ getMoves = 3
    /\ get # start.get
    /\ get[Key(0, "data")] = start.get[Key(Lo, "data")]

(* C12 as stated: whenever the frib detection does not skip (evt0_1903     *)
(* absent, or evt0_1903 present and evt{event_range}_1903 absent) and the  *)
(* shift repair runs, the target key evt{event}_1903 or evt{event}_header  *)
(* is absent from frib/evt at the moment of each rename.                   *)
C12_AsStated ==
    /\ pc = "frib_1903" => Key(event, "1903") \notin DOMAIN frib
    /\ pc = "frib_header" => Key(event, "header") \notin DOMAIN frib

\* the records a group holds
Records(g) == {g[k] : k \in DOMAIN g}

\* group g holds the records of g0, each under one key of its own kind
Conserved(g, g0) ==
    /\ Records(g) = Records(g0)
    /\ Cardinality(DOMAIN g) = Cardinality(Records(g))
    /\ Cardinality(DOMAIN g) = Cardinality(DOMAIN g0)
    /\ \A k \in DOMAIN g : g[k].kind = k[2]

\* g1 is g with one record under a new, free key and every other entry as it was
OneRename(g, g1) ==
    \E old \in DOMAIN g, new \in (DOMAIN g1 \ DOMAIN g) :
        /\ DOMAIN g1 = (DOMAIN g \ {old}) \cup {new}
        /\ g1[new] = g[old]
        /\ \A k \in DOMAIN g \ {old} : g1[k] = g[k]

\* a step changes at most one group, by one rename
ConservingStep ==
    /\ get' # get => (OneRename(get, get') /\ frib' = frib)
    /\ frib' # frib => (OneRename(frib, frib') /\ get' = get)
    /\ fribState' = fribState

(* C13: record conservation.  In every state reached during               *)
(* fix_event_numbers, the state left by an abort included, each group      *)
(* holds exactly the records it held at the start, each under exactly one  *)
(* key; a rename changes the key of one record and nothing else, and never *)
(* duplicates, drops or overwrites a record.                               *)
C13_RecordConservation ==
    /\ [](Conserved(get, start.get) /\ Conserved(frib, start.frib))
    /\ [][ConservingStep]_vars

C13_Witness ==
    /\ pc = "fix_raised"
    /\ Lo # 0
    /\ getMoves = 2 * (R + 1)
    /\ fribMoves = 1
    /\ frib # start.frib
    /\ Cardinality(DOMAIN frib) >= 3

\* the positions of fix_event_numbers and of check_timestamps
GetStage == {"get_data", "get_header", "get_meta"}
FribStage == {"frib_open", "frib_detect", "frib_1903", "frib_header", "frib_fixed"}
CheckStage == {"check", "check_loop"}

\* what each stage leaves alone
FrameStep ==
    /\ (meta' # meta \/ metaWrites' # metaWrites) =>
          /\ pc = "get_meta"
          /\ metaWrites' \subseteq {0, 2}
          /\ \A i \in (DOMAIN meta) \ {0, 2} : meta'[i] = meta[i]
          /\ DOMAIN meta' = DOMAIN meta
    /\ pc = "fix" => UNCHANGED <<meta, get, fribState, frib>>
    /\ pc \in GetStage => UNCHANGED <<fribState, frib>>
    /\ pc \in FribStage => UNCHANGED <<meta, metaWrites, get, fribState>>
    /\ pc \in CheckStage => UNCHANGED <<meta, metaWrites, get, fribState, frib>>
    /\ get' # get => pc \in {"get_data", "get_header"}
    /\ frib' # frib => pc \in {"frib_1903", "frib_header"}

(* C14: metadata and cross-stream frame.  Over a run of fix_event_numbers  *)
(* followed by check_timestamps, no metadata position other than 0 and 2  *)
(* is written, positions 0 and 2 are written only by the get offset        *)
(* repair, the get repair changes no frib key, the frib repair changes no  *)
(* get key and no metadata position, and check_timestamps changes nothing  *)
(* in the container.                                                       *)
C14_Frame ==
    /\ [][FrameStep]_vars
    /\ [](metaWrites \subseteq {0, 2} /\ meta[1] = start.meta[1])

C14_Witness ==
    /\ pc = "done"
    /\ metaWrites = {0, 2}
    /\ meta # start.meta
    /\ getMoves > 0
    /\ fribMoves > 0
    /\ report.kind = "match"

-----------------------------------------------------------------------------
(* The driver *)

\* the existing run files of the requested range
ExistingRuns == {r \in 0 .. run_max : Exists(r)}

\* main is past every run below its loop variable
Ascending ==
    /\ \A i, j \in DOMAIN visited : i < j => visited[i].run < visited[j].run
    /\ \A i \in DOMAIN visited :
          /\ visited[i].run \in ExistingRuns
          /\ visited[i].run < run
          /\ visited[i].report \in {"match", "mismatch"}

\* fix_event_numbers is running
RepairStage == {"fix"} \cup GetStage \cup FribStage

\* no function of the current run has begun
Idle == pc \in {"main", "exit"}

\* one step of the driver and of the functions it calls, in their order
DriverStep ==
    /\ run' # run =>
          /\ run' = run + 1
          /\ \/ /\ pc = "done"
                /\ report.kind \in {"match", "mismatch"}
                /\ visited' = Append(visited, Visit)
             \/ /\ pc = "main"
                /\ ~Exists(run)
                /\ pc' = "main"
                /\ visited' = visited
                /\ disk' = disk
    /\ (pc' = "fix" /\ pc # "fix") =>
          /\ pc = "main"
          /\ Exists(run)
          /\ run' = run
          /\ \A r \in ExistingRuns : r < run => r \in VisitedRuns
    /\ (pc' \in CheckStage /\ pc \notin CheckStage) =>
          /\ pc \in RepairStage
          /\ run' = run
          /\ Snapshot(meta', get', fribState', frib') = Snapshot(meta, get, fribState, frib)
    /\ (pc' \in RepairStage /\ pc \notin RepairStage) => pc = "main" /\ pc' = "fix"
    /\ (pc' = "main" /\ pc # "main") => pc = "done"

\* C15: main goes through the existing run files of run_min..run_max in
\* ascending run order; within a run the repair is over before the check begins
\* and the check is over before the repair of the next run begins; a reported
\* mismatch stops no later run (a main that returns has been through every
\* existing run, the mismatched ones included); a run without a file is passed
\* over with no repair and no check.
C15_DriverOrdering ==
    /\ [][DriverStep]_vars
    /\ [](/\ Ascending
          /\ (pc \notin {"fix_raised", "check_raised"}) =>
                \A r \in ExistingRuns : r < run => r \in VisitedRuns
          /\ pc = "exit" => VisitedRuns = ExistingRuns
          /\ \A r \in Runs : ~Exists(r) => r \notin VisitedRuns /\ (r = run => Idle))

C15_Witness ==
    /\ pc = "exit"
    /\ run_max = 2
    /\ ~Exists(1)
    /\ Len(visited) = 2
    /\ visited[1].run = 0
    /\ visited[1].report = "mismatch"
    /\ visited[2].run = 2
    /\ visited[2].getMoves > 0
    /\ visited[2].fribMoves > 0

-----------------------------------------------------------------------------
(* Handle release *)

-----------------------------------------------------------------------------
(* Idempotence *)

\* the container as found was well formed: the get keys are those of the
\* metadata range, the frib keys are 1..R+1 or 0..R
WellFormedInput ==
    /\ Hi >= Lo
    /\ DOMAIN start.get = (Lo .. Hi) \X {"data", "header"}
    /\ start.fribState = "present"
    /\ \/ DOMAIN start.frib = (1 .. (R + 1)) \X {"1903", "header"}
       \/ DOMAIN start.frib = (0 .. R) \X {"1903", "header"}

\* the second call is under way, or over
SecondCall == Len(visited) = 1

\* the first call returned after a get repair, a shift repair or both
FirstRepaired ==
    /\ SecondCall
    /\ visited[1].getMoves > 0 \/ visited[1].fribMoves > 0

\* C17: when a first call of fix_event_numbers on a well-formed container
\* returned after a get offset repair and/or a frib shift repair, a second call
\* on the result renames nothing, writes no metadata and raises nothing: the
\* container during and after the second call is the container the first left.
C17_Idempotence ==
    (WellFormedInput /\ FirstRepaired) =>
        /\ getMoves = 0
        /\ fribMoves = 0
        /\ metaWrites = {}
        /\ err = "none"
        /\ pc \in {"fix", "frib_open", "frib_detect", "check"}
        /\ Snapshot(meta, get, fribState, frib) = visited[1].after

C17_Witness ==
    /\ WellFormedInput
    /\ OffsetGet
    /\ ShiftedFrib
    /\ R >= 1
    /\ SecondCall
    /\ visited[1].getMoves = 2 * (R + 1)
    /\ visited[1].fribMoves = 2 * (R + 1)
    /\ visited[1].metaWrites = {0, 2}
    /\ visited[1].after # start
    /\ pc = "check"
    /\ log[Len(log)] = "frib_looks_ok"

====
